---- MODULE Spec2Model ----
(***************************************************************************)
(* ResearchLens backend: the resilience layer (RateLimiter.wait and the    *)
(* retry_with_backoff wrapper of utils.py) and the expiring cache          *)
(* (SimpleCache of cache.py).                                              *)
(*                                                                         *)
(* The components and their callers, each with its own specification over  *)
(* the shared variable tuple; a specification leaves the variables it does *)
(* not use at their initial values.                                        *)
(*   SpecLimiter      RateLimiter.wait called by concurrent callers        *)
(*   SpecLimiterSeq   RateLimiter.wait called by non-overlapping callers   *)
(*   SpecLimiterLive  SpecLimiter's steps under a fair scheduler and clock *)
(*   SpecRetry        one retry_with_backoff wrapper, invoked repeatedly   *)
(*   SpecSearch       search_papers under its wrapper and the limiter      *)
(*   SpecNova         analyze_papers, generate_proposal under the wrapper  *)
(*   SpecCache        SimpleCache operations, one at a time, and the clock *)
(*   SpecCacheConc    SimpleCache methods interleaved by two handlers      *)
(*   SpecApp          analyze_topic: cache, paper search, analysis         *)
(***************************************************************************)
EXTENDS Integers, Sequences, FiniteSets, TLC

VARIABLES
    \* ---- RateLimiter (utils.py:18-57) ----
    clock,            \* time.time(), in ticks of 1/TicksPerSecond second
    last_call_time,   \* RateLimiter.last_call_time
    pc,               \* per caller: position inside wait()
    current_time,     \* per caller: the local current_time of wait()
    wake_at,          \* per caller: the earliest instant time.sleep() may return
    returns,          \* the instants at which wait() returned, in order
    \* ---- retry_with_backoff.wrapper (utils.py:80-101) ----
    rpc,              \* position inside wrapper
    attempt,          \* the loop variable of `for attempt in range(max_retries + 1)`
    delay,            \* the local delay
    last_exception,   \* the local last_exception
    max_retries,      \* decorator argument
    base_delay,       \* decorator argument
    backoff_factor,   \* decorator argument
    events,           \* what this invocation did so far: calls of func and sleeps
    outcome,          \* how the invocation ended: returned value or raised failure
    invocations,      \* number of invocations of the wrapper started so far
    \* ---- SimpleCache (cache.py:14-97) ----
    ctime,            \* time.time(), in seconds
    cache,            \* SimpleCache._cache: key -> [results, timestamp]
    ret,              \* the last cache operation and what it returned
    before,           \* _cache as it was when the last cache operation began
    last_set,         \* the arguments of the most recent set()
    repeat,           \* the last operation was a get that followed a get which
                      \* returned a value for the same key
    \* ---- SimpleCache shared by concurrent request handlers ----
    cthr,             \* per handler: position inside a cache method, its locals
    cerror,           \* the exception a cache method raised, if one did
    fresh_deleted,    \* a del removed an entry that was within TTL
    cops,             \* number of cache operations started so far
    \* ---- the decorated functions of gemini_analyzer.py ----
    func,             \* the function the wrapper was invoked on
    args,             \* its arguments: are papers / analysis non-empty
    \* ---- analyze_topic (app.py:26-146) ----
    hpc,              \* position of the request handler
    htopic,           \* the local topic
    papers,           \* the local papers
    analysis,         \* the local gemini_analysis
    response,         \* the response of the last request
    objs,             \* the result dicts built so far (the cache holds references)
    sets,             \* number of cache.set calls made by the handler so far
    snap,             \* what had been done when the current request arrived
    requests          \* number of requests received so far

limiterVars == <<clock, last_call_time, pc, current_time, wake_at, returns>>
retryVars == <<rpc, attempt, delay, last_exception, max_retries, base_delay,
               backoff_factor, events, outcome, invocations>>
cacheVars == <<ctime, cache, ret, before, last_set, repeat>>
concVars == <<cthr, cerror, fresh_deleted, cops>>
callVars == <<func, args>>
appVars == <<hpc, htopic, papers, analysis, response, objs, sets, snap, requests>>
vars == <<limiterVars, retryVars, cacheVars, concVars, callVars, appVars>>

None == "None"

(***************************************************************************)
(* RateLimiter                                                             *)
(***************************************************************************)

\* Resolution of the model's clock: ticks per second.
TicksPerSecond == 2
\* The last instant the model's clock reaches.
MaxClock == 7
\* Number of callers sharing the limiter instance.
NumCallers == 2
\* Number of wait() calls that return in one behaviour.
MaxCalls == 3

Callers == 1..NumCallers

\* semantic_scholar_limiter = RateLimiter(min_interval=1.0)
MinInterval == 1 * TicksPerSecond

\* The process starts long after the epoch while last_call_time starts at 0:
\* the clock's first value is at least min_interval past last_call_time.
StartClock == MinInterval

\* if time_since_last < self.min_interval
MustSleepLate(time_since_last) == time_since_last + 1 < MinInterval
MustSleep(time_since_last) == time_since_last < MinInterval

\* sleep_time = self.min_interval - time_since_last
SleepTimeNegated(time_since_last) == time_since_last - MinInterval
SleepTime(time_since_last) == MinInterval - time_since_last

InitLimiter ==
    /\ clock = StartClock
    /\ last_call_time = 0
    /\ pc = [t \in Callers |-> "idle"]
    /\ current_time = [t \in Callers |-> 0]
    /\ wake_at = [t \in Callers |-> 0]
    /\ returns = <<>>

\* Wall-clock time passes (non-decreasing clock); it goes on passing while a
\* caller is inside time.sleep().
Tick ==
    /\ \/ clock < MaxClock
       \/ \E t \in Callers : pc[t] = "sleeping" /\ clock < wake_at[t]
    /\ clock' = clock + 1
    /\ UNCHANGED <<last_call_time, pc, current_time, wake_at, returns>>
    /\ UNCHANGED <<retryVars, cacheVars, concVars, callVars, appVars>>

Started == Len(returns) + Cardinality({t \in Callers : pc[t] # "idle"})

\* wait(), line 39: current_time = time.time()
WaitReadClock(t) ==
    /\ pc[t] = "idle"
    /\ Started < MaxCalls
    /\ current_time' = [current_time EXCEPT ![t] = clock]
    /\ pc' = [pc EXCEPT ![t] = "check"]
    /\ UNCHANGED <<clock, last_call_time, wake_at, returns>>
    /\ UNCHANGED <<retryVars, cacheVars, concVars, callVars, appVars>>

\* wait(), lines 40-45: read last_call_time, decide, and enter time.sleep(),
\* which raises ValueError when given a negative length
WaitCheck(t) ==
    /\ pc[t] = "check"
    /\ LET time_since_last == current_time[t] - last_call_time IN
         IF MustSleep(time_since_last)
           THEN IF SleepTime(time_since_last) < 0
                  THEN /\ pc' = [pc EXCEPT ![t] = "raised"]
                       /\ UNCHANGED wake_at
                  ELSE /\ wake_at' = [wake_at EXCEPT ![t] =
                                         clock + SleepTime(time_since_last)]
                       /\ pc' = [pc EXCEPT ![t] = "sleeping"]
           ELSE /\ pc' = [pc EXCEPT ![t] = "record"]
                /\ UNCHANGED wake_at
    /\ UNCHANGED <<clock, last_call_time, current_time, returns>>
    /\ UNCHANGED <<retryVars, cacheVars, concVars, callVars, appVars>>

\* time.sleep(sleep_time) returns: not before sleep_time has passed
WaitWake(t) ==
    /\ pc[t] = "sleeping"
    /\ clock >= wake_at[t]
    /\ pc' = [pc EXCEPT ![t] = "record"]
    /\ UNCHANGED <<clock, last_call_time, current_time, wake_at, returns>>
    /\ UNCHANGED <<retryVars, cacheVars, concVars, callVars, appVars>>

\* wait(), line 47: self.last_call_time = time.time(); wait() returns
WaitRecord(t) ==
    /\ pc[t] = "record"
    /\ last_call_time' = clock
    /\ returns' = Append(returns, clock)
    /\ pc' = [pc EXCEPT ![t] = "idle"]
    /\ UNCHANGED <<clock, current_time, wake_at>>
    /\ UNCHANGED <<retryVars, cacheVars, concVars, callVars, appVars>>

\* Number of wait() calls in one behaviour of the fair specification.
MaxLiveCalls == 2

\* A caller enters wait(), one of the first MaxLiveCalls calls.
LiveWaitReadClock(t) ==
    /\ Started < MaxLiveCalls
    /\ WaitReadClock(t)

\* A caller enters wait() only when no other caller is inside it.
SeqWaitReadClock(t) ==
    /\ \A u \in Callers : pc[u] = "idle"
    /\ WaitReadClock(t)

(***************************************************************************)
(* retry_with_backoff                                                      *)
(***************************************************************************)

\* Largest max_retries a decoration is given.
MaxRetriesArg == 3
\* Largest base_delay a decoration is given, in seconds.
MaxBaseDelay == 2
\* Largest backoff_factor a decoration is given.
MaxFactor == 2
\* Number of invocations of the wrapper in one behaviour.
MaxInvocations == 2

\* The failures func can raise: those of the decorator's `exceptions` tuple
\* (two distinct failure values) and one of a class outside it.
Exceptions == {"retryable_1", "retryable_2"}
OtherFailures == {"other_1"}
\* The values func can return.
Values == {"v1", "v2"}

CallEvent(res, x) == [ev |-> res, val |-> x]
SleepEvent(d) == [ev |-> "sleep", val |-> d]
NoOutcome == [kind |-> "none", val |-> None]

\* for attempt in range(max_retries + 1): the loop runs for this attempt
LoopShort(a) == a < max_retries
LoopLong(a) == a < max_retries + 2
LoopContinues(a) == a < max_retries + 1

\* except exceptions as e: the clause catches e
CaughtAll(e) == TRUE
Caught(e) == e \in Exceptions

\* last_exception = e
RememberFirst(last, e) == IF last = None THEN e ELSE last
Remember(last, e) == e

\* if attempt < max_retries
RetriesLeftAlways(a) == TRUE
RetriesLeftOffByOne(a) == a <= max_retries
RetriesLeft(a) == a < max_retries

\* delay *= backoff_factor
NextDelayKept(d) == d
NextDelayAdded(d) == d + backoff_factor
NextDelay(d) == d * backoff_factor

\* return func(*args, **kwargs)
ReturnDropped(v) == None
ReturnValue(v) == v

InitRetry ==
    /\ rpc = "undecorated"
    /\ attempt = 0
    /\ delay = 0
    /\ last_exception = None
    /\ max_retries = 0
    /\ base_delay = 0
    /\ backoff_factor = 0
    /\ events = <<>>
    /\ outcome = NoOutcome
    /\ invocations = 0

\* retry_with_backoff(max_retries, base_delay, backoff_factor, exceptions)(func)
Decorate(mr, bd, bf) ==
    /\ rpc = "undecorated"
    /\ max_retries' = mr
    /\ base_delay' = bd
    /\ backoff_factor' = bf
    /\ rpc' = "idle"
    /\ UNCHANGED <<attempt, delay, last_exception, events, outcome, invocations>>
    /\ UNCHANGED <<limiterVars, cacheVars, concVars, callVars, appVars>>

\* The for statement takes its next value a, or is exhausted and the wrapper
\* reaches `raise last_exception` (line 101).
LoopStep(a, last) ==
    /\ attempt' = a
    /\ IF LoopContinues(a)
         THEN /\ rpc' = "call"
              /\ outcome' = NoOutcome
         ELSE /\ rpc' = "raised"
              /\ outcome' = [kind |-> "raised", val |-> last]

\* wrapper(), lines 81-84: a caller invokes the decorated function
Invoked ==
    /\ rpc \in {"idle", "returned", "raised"}
    /\ invocations' = invocations + 1
    /\ last_exception' = None
    /\ delay' = base_delay
    /\ events' = <<>>
    /\ LoopStep(0, None)
    /\ UNCHANGED <<max_retries, base_delay, backoff_factor>>

InvokeKeepsDelay ==
    /\ rpc \in {"idle", "returned", "raised"}
    /\ invocations < MaxInvocations
    /\ invocations' = invocations + 1
    /\ last_exception' = None
    /\ delay' = IF invocations = 0 THEN base_delay ELSE delay
    /\ events' = <<>>
    /\ LoopStep(0, None)
    /\ UNCHANGED <<max_retries, base_delay, backoff_factor>>
    /\ UNCHANGED <<limiterVars, cacheVars, concVars, callVars, appVars>>

Invoke ==
    /\ invocations < MaxInvocations
    /\ Invoked
    /\ UNCHANGED <<limiterVars, cacheVars, concVars, callVars, appVars>>

\* line 86: func returns v and the wrapper returns it
Returned(v) ==
    /\ events' = Append(events, CallEvent("ok", v))
    /\ rpc' = "returned"
    /\ outcome' = [kind |-> "returned", val |-> ReturnValue(v)]
    /\ UNCHANGED <<attempt, delay, last_exception, max_retries, base_delay,
                   backoff_factor, invocations>>

FuncReturns(v) ==
    /\ rpc = "call"
    /\ Returned(v)
    /\ UNCHANGED <<limiterVars, cacheVars, concVars, callVars, appVars>>

\* lines 86-99: func raises e, the except clause catches it
Handled(e) ==
    /\ events' = Append(events, CallEvent("failed", e))
    /\ last_exception' = Remember(last_exception, e)
    /\ IF RetriesLeft(attempt)
         THEN /\ rpc' = "sleep"
              /\ UNCHANGED <<attempt, outcome>>
         ELSE LoopStep(attempt + 1, last_exception')
    /\ UNCHANGED <<delay, max_retries, base_delay, backoff_factor, invocations>>

FuncRaisesCaught(e) ==
    /\ rpc = "call"
    /\ Caught(e)
    /\ Handled(e)
    /\ UNCHANGED <<limiterVars, cacheVars, concVars, callVars, appVars>>

\* line 86: func raises e, no except clause catches it: it leaves the wrapper
FuncRaisesUncaughtEarlier(e) ==
    /\ rpc = "call"
    /\ ~Caught(e)
    /\ events' = Append(events, CallEvent("failed", e))
    /\ rpc' = "raised"
    /\ outcome' = [kind |-> "raised",
                   val |-> IF last_exception = None THEN e ELSE last_exception]
    /\ UNCHANGED <<attempt, delay, last_exception, max_retries, base_delay,
                   backoff_factor, invocations>>
    /\ UNCHANGED <<limiterVars, cacheVars, concVars, callVars, appVars>>

Raised(e) ==
    /\ events' = Append(events, CallEvent("failed", e))
    /\ rpc' = "raised"
    /\ outcome' = [kind |-> "raised", val |-> e]
    /\ UNCHANGED <<attempt, delay, last_exception, max_retries, base_delay,
                   backoff_factor, invocations>>

FuncRaisesUncaught(e) ==
    /\ rpc = "call"
    /\ ~Caught(e)
    /\ Raised(e)
    /\ UNCHANGED <<limiterVars, cacheVars, concVars, callVars, appVars>>

\* lines 94-95: time.sleep(delay); delay *= backoff_factor; next iteration
Slept ==
    /\ events' = Append(events, SleepEvent(delay))
    /\ delay' = NextDelay(delay)
    /\ LoopStep(attempt + 1, last_exception)
    /\ UNCHANGED <<last_exception, max_retries, base_delay, backoff_factor,
                   invocations>>

Sleep ==
    /\ rpc = "sleep"
    /\ Slept
    /\ UNCHANGED <<limiterVars, cacheVars, concVars, callVars, appVars>>

\* What one invocation did: calls of func, sleeps.
IsCall(x) == x.ev \in {"ok", "failed"}
CallsAt == {i \in 1..Len(events) : IsCall(events[i])}
SleepsAt == {i \in 1..Len(events) : events[i].ev = "sleep"}
Calls == Cardinality(CallsAt)
Sleeps == Cardinality(SleepsAt)
Finished == rpc \in {"returned", "raised"}

(***************************************************************************)
(* search_papers (semantic_scholar.py:34-90): the function the module      *)
(* decorates with retry_with_backoff; its body starts with                 *)
(* semantic_scholar_limiter.wait().                                        *)
(***************************************************************************)

\* What requests.get() can end in: a response with a status code (200 with
\* or without a "data" field), a timeout, another RequestException.
Responses ==
    {"200 data", "200 no data", "429", "400", "500", "Timeout", "RequestException"}

\* The exception search_papers raises for the response, None when it returns.
SearchError(resp) ==
    CASE resp = "429" -> "SemanticScholarError: Rate limit exceeded"
      [] resp = "400" -> "SemanticScholarError: Bad request"
      [] resp = "500" -> "SemanticScholarError: API request failed with status"
      [] resp = "Timeout" -> "SemanticScholarError: Request timed out"
      [] resp = "RequestException" -> "SemanticScholarError: Request failed"
      [] OTHER -> None

\* The list search_papers returns for the response.
SearchResult(resp) == IF resp = "200 data" THEN "papers" ELSE "[]"

\* exceptions=(requests.RequestException, SemanticScholarError): every
\* exception search_papers raises is a SemanticScholarError
SearchCaught(e) == e \in {SearchError(resp) : resp \in Responses} \ {None}

\* @retry_with_backoff(max_retries=3, base_delay=2.0, exceptions=...), with
\* the default backoff_factor=2.0
DecorateSearch == Decorate(3, 2, 2)

\* wrapper(), lines 81-84, of the decorated search_papers
SearchInvoke ==
    /\ invocations < MaxInvocations
    /\ Invoked
    /\ func' = "search_papers"
    /\ UNCHANGED args
    /\ UNCHANGED <<limiterVars, cacheVars, concVars, appVars>>

\* line 50: semantic_scholar_limiter.wait(), by the only caller inside it
SearchWaitMissing ==
    /\ func = "search_papers"
    /\ rpc = "call"
    /\ rpc' = "request"
    /\ UNCHANGED <<attempt, delay, last_exception, max_retries, base_delay,
                   backoff_factor, events, outcome, invocations>>
    /\ UNCHANGED <<limiterVars, cacheVars, concVars, callVars, appVars>>

SearchWait ==
    /\ func = "search_papers"
    /\ rpc = "call"
    /\ LET time_since_last == clock - last_call_time
           woken == IF MustSleep(time_since_last)
                      THEN clock + SleepTime(time_since_last)
                      ELSE clock
       IN /\ clock' = woken
          /\ last_call_time' = woken
          /\ returns' = Append(returns, woken)
    /\ rpc' = "request"
    /\ UNCHANGED <<pc, current_time, wake_at>>
    /\ UNCHANGED <<attempt, delay, last_exception, max_retries, base_delay,
                   backoff_factor, events, outcome, invocations>>
    /\ UNCHANGED <<cacheVars, concVars, callVars, appVars>>

\* lines 65-85: the request is answered and search_papers returns a list
SearchReturns(resp) ==
    /\ func = "search_papers"
    /\ rpc = "request"
    /\ SearchError(resp) = None
    /\ Returned(SearchResult(resp))
    /\ UNCHANGED <<limiterVars, cacheVars, concVars, callVars, appVars>>

\* lines 65-90: search_papers raises; the wrapper's except clause catches it
SearchFails(resp) ==
    /\ func = "search_papers"
    /\ rpc = "request"
    /\ SearchError(resp) # None
    /\ SearchCaught(SearchError(resp))
    /\ Handled(SearchError(resp))
    /\ UNCHANGED <<limiterVars, cacheVars, concVars, callVars, appVars>>

\* utils.py lines 94-95 in the wrapper of search_papers: the clock moves on
\* by the sleep
SearchSleep ==
    /\ func = "search_papers"
    /\ rpc = "sleep"
    /\ Slept
    /\ clock' = clock + delay * TicksPerSecond
    /\ UNCHANGED <<last_call_time, pc, current_time, wake_at, returns>>
    /\ UNCHANGED <<cacheVars, concVars, callVars, appVars>>

(***************************************************************************)
(* analyze_papers and generate_proposal (gemini_analyzer.py:123-202,       *)
(* 351-425), both decorated with retry_with_backoff.                       *)
(***************************************************************************)

NovaFuncs == {"analyze_papers", "generate_proposal"}

\* The arguments as far as the functions test them: `not papers`,
\* `not analysis`.
NoArgs == [papers |-> FALSE, analysis |-> FALSE]
Arguments == [papers : BOOLEAN, analysis : BOOLEAN]

InitCall ==
    /\ func = None
    /\ args = NoArgs

\* What the body after the argument test can end in: a parsed answer, a
\* ClientError of client.invoke_model with its error code, an answer the
\* function rejects, an exception of botocore that is no ClientError.
NovaOutcomes ==
    {"ok", "ThrottlingException", "ValidationException", "Empty response",
     "BotoCoreError"}

\* if not papers / if not papers or not analysis
ArgsRejected(f, a) ==
    IF f = "analyze_papers" THEN ~a.papers ELSE ~a.papers \/ ~a.analysis

\* The exception the function raises, None when it returns.
NovaFailure(f, a, out) ==
    IF ArgsRejected(f, a)
      THEN IF f = "analyze_papers"
             THEN "NovaError: No papers provided for analysis"
             ELSE "NovaError: Papers and analysis required"
      ELSE CASE out = "ThrottlingException" ->
                  IF f = "analyze_papers"
                    THEN "NovaError: Nova rate limit exceeded"
                    ELSE "NovaError: Proposal generation failed (ThrottlingException)"
             [] out = "ValidationException" ->
                  IF f = "analyze_papers"
                    THEN "NovaError: Invalid request to Nova"
                    ELSE "NovaError: Proposal generation failed (ValidationException)"
             [] out = "Empty response" -> "NovaError: Empty response from Nova"
             [] out = "BotoCoreError" -> "BotoCoreError"
             [] OTHER -> None

NovaErrors ==
    {NovaFailure(f, a, out) : f \in NovaFuncs, a \in Arguments,
                              out \in NovaOutcomes \ {"ok", "BotoCoreError"}}

\* exceptions=(ClientError, NovaError)
NovaCaught(e) == e \in NovaErrors

\* What the function returns.
NovaResult(f) == IF f = "analyze_papers" THEN "analysis" ELSE "proposal"

\* @retry_with_backoff(max_retries=3, base_delay=2.0, exceptions=...), with
\* the default backoff_factor=2.0
DecorateNova == Decorate(3, 2, 2)

\* wrapper(), lines 81-84, of the decorated function f called with a
NovaInvoke(f, a) ==
    /\ invocations < MaxInvocations
    /\ Invoked
    /\ func' = f
    /\ args' = a
    /\ UNCHANGED <<limiterVars, cacheVars, concVars, appVars>>

\* the function returns the parsed answer
NovaReturns(out) ==
    /\ func \in NovaFuncs
    /\ rpc = "call"
    /\ NovaFailure(func, args, out) = None
    /\ Returned(NovaResult(func))
    /\ UNCHANGED <<limiterVars, cacheVars, concVars, callVars, appVars>>

\* the function raises an exception the wrapper's except clause catches
NovaFails(out) ==
    /\ func \in NovaFuncs
    /\ rpc = "call"
    /\ NovaFailure(func, args, out) # None
    /\ NovaCaught(NovaFailure(func, args, out))
    /\ Handled(NovaFailure(func, args, out))
    /\ UNCHANGED <<limiterVars, cacheVars, concVars, callVars, appVars>>

\* the function raises an exception that leaves the wrapper
NovaRaises(out) ==
    /\ func \in NovaFuncs
    /\ rpc = "call"
    /\ NovaFailure(func, args, out) # None
    /\ ~NovaCaught(NovaFailure(func, args, out))
    /\ Raised(NovaFailure(func, args, out))
    /\ UNCHANGED <<limiterVars, cacheVars, concVars, callVars, appVars>>

\* utils.py lines 94-95 in the wrapper of the function: the clock moves on
\* by the sleep
NovaSleep ==
    /\ func \in NovaFuncs
    /\ rpc = "sleep"
    /\ Slept
    /\ clock' = clock + delay * TicksPerSecond
    /\ UNCHANGED <<last_call_time, pc, current_time, wake_at, returns>>
    /\ UNCHANGED <<cacheVars, concVars, callVars, appVars>>

(***************************************************************************)
(* SimpleCache                                                             *)
(***************************************************************************)

\* Whole TTL periods the model's clock runs through.
MaxDays == 2
\* Seconds the model's clock moves past a whole number of TTL periods.
MaxExtraSeconds == 1

\* CACHE_EXPIRATION = 24 * 60 * 60
CACHE_EXPIRATION == 24 * 60 * 60

\* Topic strings, as sequences of characters: upper-case and lower-case
\* letters and the blank.
Topics ==
    { <<"D", "L">>, <<" ", "d", "l", " ">>, <<"d", " ", "l">> }
\* The results dicts that are stored.
Results == {"res1", "res2"}

\* str.lower(), one character
LowerChar(c) ==
    CASE c = "D" -> "d"
      [] c = "L" -> "l"
      [] OTHER -> c

\* str.lower()
Lower(str) == [i \in 1..Len(str) |-> LowerChar(str[i])]

\* str.strip(): drop the leading and the trailing whitespace
RECURSIVE LStrip(_)
LStrip(str) ==
    IF str # <<>> /\ Head(str) = " " THEN LStrip(Tail(str)) ELSE str
RECURSIVE RStrip(_)
RStrip(str) ==
    IF str # <<>> /\ str[Len(str)] = " "
      THEN RStrip(SubSeq(str, 1, Len(str) - 1))
      ELSE str
Strip(str) == LStrip(RStrip(str))

\* hashlib.md5(...).hexdigest(): a digest, taken to be free of collisions
Md5(str) == <<"md5", str>>

\* SimpleCache._generate_key
NoStrip(topic) == Md5(Lower(topic))
GenerateKey(topic) == Md5(Strip(Lower(topic)))

\* current_time - entry['timestamp'] > CACHE_EXPIRATION
ExpiredAtTTL(current, timestamp) == current - timestamp >= CACHE_EXPIRATION
Expired(current, timestamp) == current - timestamp > CACHE_EXPIRATION

\* del self._cache[key], for each key of keys
WithoutAll(c, keys) == <<>>
WithoutNone(c, keys) == c
Without(c, keys) == [k \in DOMAIN c \ keys |-> c[k]]

\* {'results': results, 'timestamp': time.time()}
EntryKeepsTime(c, key, results, now) ==
    [results |-> results,
     timestamp |-> IF key \in DOMAIN c THEN c[key].timestamp ELSE now]
Entry(c, key, results, now) == [results |-> results, timestamp |-> now]

\* entry = self._cache[key]: the store after the read
AfterReadPop(c, key) == [k \in DOMAIN c \ {key} |-> c[k]]
AfterRead(c, key) == c

\* What an operation returned: a results dict or None in val, an int in count.
Ret(op, topic, val) == [op |-> op, topic |-> topic, val |-> val, count |-> -1]
RetCount(op, n) == [op |-> op, topic |-> <<>>, val |-> None, count |-> n]
NoRet == Ret("none", <<>>, None)
NoSet == [topic |-> <<>>, results |-> None]

InitCache ==
    /\ ctime = 0
    /\ cache = <<>>
    /\ ret = NoRet
    /\ before = <<>>
    /\ last_set = NoSet
    /\ repeat = FALSE

\* Wall-clock time passes, by a second or by a whole TTL period.
Advance(d) ==
    /\ IF d = 1
         THEN ctime % CACHE_EXPIRATION < MaxExtraSeconds
         ELSE ctime + d <= MaxDays * CACHE_EXPIRATION + MaxExtraSeconds
    /\ ctime' = ctime + d
    /\ ret' = NoRet
    /\ before' = cache
    /\ repeat' = FALSE
    /\ UNCHANGED <<cache, last_set>>
    /\ UNCHANGED <<limiterVars, retryVars, concVars, callVars, appVars>>

\* SimpleCache.get
Got(topic) ==
    /\ LET key == GenerateKey(topic) IN
         IF key \notin DOMAIN cache
           THEN /\ ret' = Ret("get", topic, None)
                /\ UNCHANGED cache
           ELSE IF Expired(ctime, cache[key].timestamp)
             THEN /\ cache' = Without(cache, {key})
                  /\ ret' = Ret("get", topic, None)
             ELSE /\ ret' = Ret("get", topic, cache[key].results)
                  /\ cache' = AfterRead(cache, key)
    /\ before' = cache
    /\ repeat' = (/\ ret.op = "get"
                  /\ ret.val # None
                  /\ GenerateKey(ret.topic) = GenerateKey(topic))
    /\ UNCHANGED <<ctime, last_set>>

Get(topic) ==
    /\ Got(topic)
    /\ UNCHANGED <<limiterVars, retryVars, concVars, callVars, appVars>>

\* self._cache = {key: {...}}: the store rebuilt around the one entry
StoredAlone(topic, results) ==
    /\ LET key == GenerateKey(topic) IN
         cache' = [k \in {key} |-> Entry(cache, key, results, ctime)]
    /\ ret' = Ret("set", topic, None)
    /\ before' = cache
    /\ last_set' = [topic |-> topic, results |-> results]
    /\ repeat' = FALSE
    /\ UNCHANGED ctime

\* SimpleCache.set
Stored(topic, results) ==
    /\ LET key == GenerateKey(topic) IN
         cache' = [k \in DOMAIN cache \cup {key} |->
                     IF k = key
                       THEN Entry(cache, key, results, ctime)
                       ELSE cache[k]]
    /\ ret' = Ret("set", topic, None)
    /\ before' = cache
    /\ last_set' = [topic |-> topic, results |-> results]
    /\ repeat' = FALSE
    /\ UNCHANGED ctime

Set(topic, results) ==
    /\ Stored(topic, results)
    /\ UNCHANGED <<limiterVars, retryVars, concVars, callVars, appVars>>

\* SimpleCache.clear_expired
ClearExpired ==
    /\ LET expired_keys ==
             {k \in DOMAIN cache : Expired(ctime, cache[k].timestamp)} IN
         /\ cache' = Without(cache, expired_keys)
         /\ ret' = RetCount("clear_expired", Cardinality(expired_keys))
    /\ before' = cache
    /\ repeat' = FALSE
    /\ UNCHANGED <<ctime, last_set>>
    /\ UNCHANGED <<limiterVars, retryVars, concVars, callVars, appVars>>

\* SimpleCache.clear_all
ClearAllExpiredOnly ==
    /\ cache' = Without(cache, {k \in DOMAIN cache : Expired(ctime, cache[k].timestamp)})
    /\ ret' = Ret("clear_all", <<>>, None)
    /\ before' = cache
    /\ repeat' = FALSE
    /\ UNCHANGED <<ctime, last_set>>
    /\ UNCHANGED <<limiterVars, retryVars, concVars, callVars, appVars>>
ClearAll ==
    /\ cache' = <<>>
    /\ ret' = Ret("clear_all", <<>>, None)
    /\ before' = cache
    /\ repeat' = FALSE
    /\ UNCHANGED <<ctime, last_set>>
    /\ UNCHANGED <<limiterVars, retryVars, concVars, callVars, appVars>>

\* SimpleCache.size
SizeFresh ==
    /\ ret' = RetCount("size",
                  Cardinality({k \in DOMAIN cache : ~Expired(ctime, cache[k].timestamp)}))
    /\ before' = cache
    /\ repeat' = FALSE
    /\ UNCHANGED <<ctime, cache, last_set>>
    /\ UNCHANGED <<limiterVars, retryVars, concVars, callVars, appVars>>
Size ==
    /\ ret' = RetCount("size", Cardinality(DOMAIN cache))
    /\ before' = cache
    /\ repeat' = FALSE
    /\ UNCHANGED <<ctime, cache, last_set>>
    /\ UNCHANGED <<limiterVars, retryVars, concVars, callVars, appVars>>

(***************************************************************************)
(* SimpleCache shared by concurrent request handlers: the methods take no *)
(* lock, so another handler can run between any two of their statements.  *)
(***************************************************************************)

\* Number of request handlers running cache methods at the same time.
NumHandlers == 2
\* Number of cache operations started in one behaviour.
MaxCacheOps == 4

Handlers == 1..NumHandlers

NoEntry == [results |-> None, timestamp |-> 0]
Idle == [pc |-> "idle", key |-> Md5(<<>>), entry |-> NoEntry, now |-> 0,
         expired |-> {}, visited |-> {}, size |-> 0]

InitConc ==
    /\ cthr = [t \in Handlers |-> Idle]
    /\ cerror = None
    /\ fresh_deleted = FALSE
    /\ cops = 0

CanStart(t) == cthr[t].pc = "idle" /\ cops < MaxCacheOps

\* get, lines 41-44: key = ...; if key not in self._cache: return None
CGetBegin(t, topic) ==
    /\ CanStart(t)
    /\ cops' = cops + 1
    /\ LET key == GenerateKey(topic) IN
         IF key \notin DOMAIN cache
           THEN UNCHANGED cthr
           ELSE cthr' = [cthr EXCEPT ![t] = [Idle EXCEPT !.pc = "get_read", !.key = key]]
    /\ UNCHANGED <<cache, cerror, fresh_deleted>>
    /\ UNCHANGED <<limiterVars, retryVars, ctime, ret, before, last_set, repeat,
                   callVars, appVars>>

\* get, line 46: entry = self._cache[key]; KeyError when the key is gone
CGetRead(t) ==
    /\ cthr[t].pc = "get_read"
    /\ IF cthr[t].key \notin DOMAIN cache
         THEN /\ cerror' = "KeyError"
              /\ cthr' = [cthr EXCEPT ![t] = Idle]
         ELSE /\ cthr' = [cthr EXCEPT ![t].pc = "get_check",
                                      ![t].entry = cache[cthr[t].key]]
              /\ UNCHANGED cerror
    /\ UNCHANGED <<cache, fresh_deleted, cops>>
    /\ UNCHANGED <<limiterVars, retryVars, ctime, ret, before, last_set, repeat,
                   callVars, appVars>>

\* get, lines 47-55: current_time = time.time(); the expiry test; the
\* return of entry['results'] when the entry has not expired
CGetCheck(t) ==
    /\ cthr[t].pc = "get_check"
    /\ IF Expired(ctime, cthr[t].entry.timestamp)
         THEN cthr' = [cthr EXCEPT ![t].pc = "get_del", ![t].now = ctime]
         ELSE cthr' = [cthr EXCEPT ![t] = Idle]
    /\ UNCHANGED <<cache, cerror, fresh_deleted, cops>>
    /\ UNCHANGED <<limiterVars, retryVars, ctime, ret, before, last_set, repeat,
                   callVars, appVars>>

\* del self._cache[key] by handler t: KeyError when the key is gone
Delete(t, key, next) ==
    IF key \notin DOMAIN cache
      THEN /\ cerror' = "KeyError"
           /\ cthr' = [cthr EXCEPT ![t] = Idle]
           /\ UNCHANGED <<cache, fresh_deleted>>
      ELSE /\ cache' = Without(cache, {key})
           /\ fresh_deleted' =
                 (fresh_deleted \/ ~Expired(ctime, cache[key].timestamp))
           /\ cthr' = [cthr EXCEPT ![t] = next]
           /\ UNCHANGED cerror

\* get, lines 52-53: del self._cache[key]; return None
CGetDelete(t) ==
    /\ cthr[t].pc = "get_del"
    /\ Delete(t, cthr[t].key, Idle)
    /\ UNCHANGED cops
    /\ UNCHANGED <<limiterVars, retryVars, ctime, ret, before, last_set, repeat,
                   callVars, appVars>>

\* set, lines 65-70: one store into the dict
CSet(t, topic, results) ==
    /\ CanStart(t)
    /\ cops' = cops + 1
    /\ LET key == GenerateKey(topic) IN
         cache' = [k \in DOMAIN cache \cup {key} |->
                     IF k = key
                       THEN Entry(cache, key, results, ctime)
                       ELSE cache[k]]
    /\ UNCHANGED <<cthr, cerror, fresh_deleted>>
    /\ UNCHANGED <<limiterVars, retryVars, ctime, ret, before, last_set, repeat,
                   callVars, appVars>>

\* clear_expired, lines 79-82: current_time = time.time(); expired_keys = [];
\* the for statement creates the iterator over self._cache.items()
CSweepBegin(t) ==
    /\ CanStart(t)
    /\ cops' = cops + 1
    /\ cthr' = [cthr EXCEPT ![t] = [Idle EXCEPT !.pc = "sweep_iter",
                                                !.now = ctime,
                                                !.size = Cardinality(DOMAIN cache)]]
    /\ UNCHANGED <<cache, cerror, fresh_deleted>>
    /\ UNCHANGED <<limiterVars, retryVars, ctime, ret, before, last_set, repeat,
                   callVars, appVars>>

\* clear_expired, lines 82-84: the iterator's next item and the loop body.
\* The dict iterator raises RuntimeError when the dict's size is not the
\* one it had when the iterator was created; otherwise it yields an item
\* it has not yielded yet, or ends.
CSweepNext(t) ==
    /\ cthr[t].pc = "sweep_iter"
    /\ IF Cardinality(DOMAIN cache) # cthr[t].size
         THEN /\ cerror' = "RuntimeError"
              /\ cthr' = [cthr EXCEPT ![t] = Idle]
         ELSE /\ UNCHANGED cerror
              /\ IF DOMAIN cache \ cthr[t].visited = {}
                   THEN cthr' = [cthr EXCEPT ![t].pc = "sweep_del"]
                   ELSE \E k \in DOMAIN cache \ cthr[t].visited :
                          cthr' = [cthr EXCEPT
                             ![t].visited = @ \cup {k},
                             ![t].expired =
                                 IF Expired(cthr[t].now, cache[k].timestamp)
                                   THEN @ \cup {k} ELSE @]
    /\ UNCHANGED <<cache, fresh_deleted, cops>>
    /\ UNCHANGED <<limiterVars, retryVars, ctime, ret, before, last_set, repeat,
                   callVars, appVars>>

\* clear_expired, lines 86-89: del self._cache[key] for the next expired
\* key, or return len(expired_keys) when none is left
CSweepDelete(t) ==
    /\ cthr[t].pc = "sweep_del"
    /\ IF cthr[t].expired = {}
         THEN /\ cthr' = [cthr EXCEPT ![t] = Idle]
              /\ UNCHANGED <<cache, cerror, fresh_deleted>>
         ELSE \E k \in cthr[t].expired :
                Delete(t, k, [cthr[t] EXCEPT !.expired = @ \ {k}])
    /\ UNCHANGED cops
    /\ UNCHANGED <<limiterVars, retryVars, ctime, ret, before, last_set, repeat,
                   callVars, appVars>>

\* clear_all, line 93: self._cache.clear()
CClearAll(t) ==
    /\ CanStart(t)
    /\ cops' = cops + 1
    /\ cache' = <<>>
    /\ UNCHANGED <<cthr, cerror, fresh_deleted>>
    /\ UNCHANGED <<limiterVars, retryVars, ctime, ret, before, last_set, repeat,
                   callVars, appVars>>

(***************************************************************************)
(* analyze_topic (app.py:26-146)                                           *)
(***************************************************************************)

\* Number of requests the handler receives in one behaviour.
MaxRequests == 2

\* The topic field of the request bodies.
RequestTopics ==
    { <<"D", "L", "L">>, <<" ", "d", "l", "l">>, <<"d", " ", "l">>, <<" ", "d">> }

\* What the paper search API answers in the behaviours of the handler.
AppResponses == {"200 data", "200 no data", "Timeout"}
\* What the Nova call ends in, in the behaviours of the handler.
AppNovaOutcomes == {"ok", "ThrottlingException", "BotoCoreError"}
\* What the steps between two calls end in: a list of papers, an empty
\* list, an exception.
Processed == {"papers", "[]", "Exception"}

\* The result dict of the n-th request.
ObjId(n) == <<"result 1", "result 2", "result 3", "result 4">>[n]

NoResponse == [status |-> 0, from_cache |-> FALSE, obj |-> None]
NoSnap == [cache |-> <<>>, waits |-> 0, invocations |-> 0, sets |-> 0]
Respond(code) == [status |-> code, from_cache |-> FALSE, obj |-> None]

InitApp ==
    /\ hpc = "idle"
    /\ htopic = <<>>
    /\ papers = None
    /\ analysis = None
    /\ response = NoResponse
    /\ objs = <<>>
    /\ sets = 0
    /\ snap = NoSnap
    /\ requests = 0

\* lines 46-67: the topic is stripped and validated
Receive(raw) ==
    /\ hpc = "idle"
    /\ rpc # "undecorated"
    /\ requests < MaxRequests
    /\ requests' = requests + 1
    /\ htopic' = Strip(raw)
    /\ papers' = None
    /\ analysis' = None
    /\ snap' = [cache |-> cache, waits |-> Len(returns),
                invocations |-> invocations, sets |-> sets]
    /\ IF Strip(raw) = <<>> \/ Len(Strip(raw)) < 3
         THEN /\ response' = Respond(400)
              /\ hpc' = "idle"
         ELSE /\ response' = NoResponse
              /\ hpc' = "get"
    /\ UNCHANGED <<objs, sets>>
    /\ UNCHANGED <<limiterVars, retryVars, cacheVars, concVars, callVars>>

\* if cached_result
TruthyNever(cached_result) == FALSE
Truthy(cached_result) == cached_result # None

\* cached_result['from_cache'] = True, on the dict the cache holds
MarkFromCache(o, id) == [o EXCEPT ![id].from_cache = TRUE]

\* lines 70-74: cache.get(topic); a cached result is marked and returned
CheckCache ==
    /\ hpc = "get"
    /\ Got(htopic)
    /\ IF Truthy(ret'.val)
         THEN /\ objs' = MarkFromCache(objs, ret'.val)
              /\ response' = [status |-> 200,
                              from_cache |-> objs'[ret'.val].from_cache,
                              obj |-> ret'.val]
              /\ hpc' = "idle"
         ELSE /\ hpc' = "fetch"
              /\ UNCHANGED <<objs, response>>
    /\ UNCHANGED <<htopic, papers, analysis, sets, snap, requests>>
    /\ UNCHANGED <<limiterVars, retryVars, concVars, callVars>>

\* line 79 and semantic_scholar.py:108: search_papers(topic) is called
FetchPapersNewLimiter ==
    /\ hpc = "fetch"
    /\ Invoked
    /\ func' = "search_papers"
    /\ hpc' = "searching"
    /\ last_call_time' = 0
    /\ UNCHANGED args
    /\ UNCHANGED <<htopic, papers, analysis, response, objs, sets, snap, requests>>
    /\ UNCHANGED <<clock, pc, current_time, wake_at, returns>>
    /\ UNCHANGED <<cacheVars, concVars>>

FetchPapers ==
    /\ hpc = "fetch"
    /\ Invoked
    /\ func' = "search_papers"
    /\ hpc' = "searching"
    /\ UNCHANGED args
    /\ UNCHANGED <<htopic, papers, analysis, response, objs, sets, snap, requests>>
    /\ UNCHANGED <<limiterVars, cacheVars, concVars>>

\* The wrapper has returned or raised, the caller goes on: the wrapper's
\* locals are gone.
Popped ==
    /\ rpc' = "idle"
    /\ attempt' = 0
    /\ delay' = 0
    /\ last_exception' = None
    /\ events' = <<>>
    /\ outcome' = NoOutcome
    /\ func' = None
    /\ args' = NoArgs
    /\ UNCHANGED <<max_retries, base_delay, backoff_factor, invocations>>

\* lines 134-139: search_papers raised SemanticScholarError
SearchFailedCaches ==
    /\ hpc = "searching"
    /\ rpc = "raised"
    /\ Popped
    /\ response' = Respond(503)
    /\ Stored(htopic, "error")
    /\ sets' = sets + 1
    /\ hpc' = "idle"
    /\ UNCHANGED <<htopic, papers, analysis, objs, snap, requests>>
    /\ UNCHANGED <<limiterVars, concVars>>

SearchFailed ==
    /\ hpc = "searching"
    /\ rpc = "raised"
    /\ Popped
    /\ response' = Respond(503)
    /\ hpc' = "idle"
    /\ UNCHANGED <<htopic, papers, analysis, objs, sets, snap, requests>>
    /\ UNCHANGED <<limiterVars, cacheVars, concVars>>

\* semantic_scholar.py:110-173 and lines 81-97, 141-146: the papers are
\* filtered, stored, summarised; no paper left gives 404, an exception 500
ProcessPapers(p) ==
    /\ hpc = "searching"
    /\ rpc = "returned"
    /\ outcome.val = "[]" => p = "[]"
    /\ Popped
    /\ IF p = "papers"
         THEN /\ papers' = p
              /\ hpc' = "analyze"
              /\ UNCHANGED response
         ELSE /\ response' = Respond(IF p = "[]" THEN 404 ELSE 500)
              /\ hpc' = "idle"
              /\ UNCHANGED papers
    /\ UNCHANGED <<htopic, analysis, objs, sets, snap, requests>>
    /\ UNCHANGED <<limiterVars, cacheVars, concVars>>

\* line 102: analyze_papers(topic, papers) is called
AnalyzePapers ==
    /\ hpc = "analyze"
    /\ Invoked
    /\ func' = "analyze_papers"
    /\ args' = [papers |-> papers # "[]", analysis |-> FALSE]
    /\ hpc' = "analyzing"
    /\ UNCHANGED <<htopic, papers, analysis, response, objs, sets, snap, requests>>
    /\ UNCHANGED <<limiterVars, cacheVars, concVars>>

\* lines 102-106, 141-146: the analysis, the default analysis after a
\* GeminiError, 500 after another exception; papers is kept for the
\* references
Analyzed ==
    /\ hpc = "analyzing"
    /\ Finished
    /\ Popped
    /\ IF outcome.kind = "returned"
         THEN /\ analysis' = outcome.val
              /\ hpc' = "compile"
              /\ UNCHANGED response
         ELSE IF NovaCaught(outcome.val)
           THEN /\ analysis' = "default analysis"
                /\ hpc' = "compile"
                /\ UNCHANGED response
           ELSE /\ response' = Respond(500)
                /\ hpc' = "idle"
                /\ analysis' = None
    /\ UNCHANGED <<htopic, papers, objs, sets, snap, requests>>
    /\ UNCHANGED <<limiterVars, cacheVars, concVars>>

\* lines 115-132 with the cache write left out for a default analysis
CompileCachesFullOnly(ok) ==
    /\ hpc = "compile"
    /\ IF ok
         THEN /\ objs' = [id \in DOMAIN objs \cup {ObjId(requests)} |->
                            IF id = ObjId(requests)
                              THEN [analysis |-> analysis, from_cache |-> FALSE]
                              ELSE objs[id]]
              /\ IF analysis = "default analysis"
                   THEN UNCHANGED <<sets, cacheVars>>
                   ELSE /\ Stored(htopic, ObjId(requests))
                        /\ sets' = sets + 1
              /\ response' = [status |-> 200, from_cache |-> FALSE,
                              obj |-> ObjId(requests)]
         ELSE /\ response' = Respond(500)
              /\ UNCHANGED <<objs, sets, cacheVars>>
    /\ hpc' = "idle"
    /\ papers' = None
    /\ analysis' = None
    /\ UNCHANGED <<htopic, snap, requests>>
    /\ UNCHANGED <<limiterVars, retryVars, concVars, callVars>>

\* lines 108-132, 141-146: the result is compiled, cached and returned; an
\* exception while the references are formatted gives 500
Compile(ok) ==
    /\ hpc = "compile"
    /\ IF ok
         THEN /\ objs' = [id \in DOMAIN objs \cup {ObjId(requests)} |->
                            IF id = ObjId(requests)
                              THEN [analysis |-> analysis, from_cache |-> FALSE]
                              ELSE objs[id]]
              /\ Stored(htopic, ObjId(requests))
              /\ sets' = sets + 1
              /\ response' = [status |-> 200, from_cache |-> FALSE,
                              obj |-> ObjId(requests)]
         ELSE /\ response' = Respond(500)
              /\ UNCHANGED <<objs, sets, cacheVars>>
    /\ hpc' = "idle"
    /\ papers' = None
    /\ analysis' = None
    /\ UNCHANGED <<htopic, snap, requests>>
    /\ UNCHANGED <<limiterVars, retryVars, concVars, callVars>>

\* Time passes between two requests.
Later(d) ==
    /\ hpc = "idle"
    /\ requests > 0
    /\ requests < MaxRequests
    /\ Advance(d)

(***************************************************************************)
(* Specifications                                                          *)
(***************************************************************************)

Init == InitLimiter /\ InitRetry /\ InitCache /\ InitConc /\ InitCall /\ InitApp

NextLimiter ==
    \/ Tick
    \/ \E t \in Callers : WaitReadClock(t)
    \/ \E t \in Callers : WaitCheck(t)
    \/ \E t \in Callers : WaitWake(t)
    \/ \E t \in Callers : WaitRecord(t)

SpecLimiter == Init /\ [][NextLimiter]_vars

\* The clock goes on, and the scheduler goes on running every thread that is
\* inside wait().
FairLimiter ==
    /\ WF_vars(Tick)
    /\ \A t \in Callers : WF_vars(WaitCheck(t) \/ WaitWake(t) \/ WaitRecord(t))

NextLimiterLive ==
    \/ Tick
    \/ \E t \in Callers : LiveWaitReadClock(t)
    \/ \E t \in Callers : WaitCheck(t)
    \/ \E t \in Callers : WaitWake(t)
    \/ \E t \in Callers : WaitRecord(t)

SpecLimiterLive == Init /\ [][NextLimiterLive]_vars /\ FairLimiter

NextLimiterSeq ==
    \/ Tick
    \/ \E t \in Callers : SeqWaitReadClock(t)
    \/ \E t \in Callers : WaitCheck(t)
    \/ \E t \in Callers : WaitWake(t)
    \/ \E t \in Callers : WaitRecord(t)

SpecLimiterSeq == Init /\ [][NextLimiterSeq]_vars

NextRetry ==
    \/ \E mr \in 0..MaxRetriesArg, bd \in 1..MaxBaseDelay, bf \in 1..MaxFactor :
          Decorate(mr, bd, bf)
    \/ Invoke
    \/ \E v \in Values : FuncReturns(v)
    \/ \E e \in Exceptions \cup OtherFailures : FuncRaisesCaught(e)
    \/ \E e \in Exceptions \cup OtherFailures : FuncRaisesUncaught(e)
    \/ Sleep

SpecRetry == Init /\ [][NextRetry]_vars

NextSearch ==
    \/ DecorateSearch
    \/ SearchInvoke
    \/ SearchWait
    \/ \E resp \in Responses : SearchReturns(resp)
    \/ \E resp \in Responses : SearchFails(resp)
    \/ SearchSleep

SpecSearch == Init /\ [][NextSearch]_vars

NextNova ==
    \/ DecorateNova
    \/ \E f \in NovaFuncs, a \in Arguments : NovaInvoke(f, a)
    \/ \E out \in NovaOutcomes : NovaReturns(out)
    \/ \E out \in NovaOutcomes : NovaFails(out)
    \/ \E out \in NovaOutcomes : NovaRaises(out)
    \/ NovaSleep

SpecNova == Init /\ [][NextNova]_vars

NextApp ==
    \/ DecorateSearch
    \/ \E raw \in RequestTopics : Receive(raw)
    \/ CheckCache
    \/ FetchPapers
    \/ SearchWait
    \/ \E resp \in AppResponses : SearchReturns(resp)
    \/ \E resp \in AppResponses : SearchFails(resp)
    \/ SearchSleep
    \/ SearchFailed
    \/ \E p \in Processed : ProcessPapers(p)
    \/ AnalyzePapers
    \/ \E out \in AppNovaOutcomes : NovaReturns(out)
    \/ \E out \in AppNovaOutcomes : NovaFails(out)
    \/ \E out \in AppNovaOutcomes : NovaRaises(out)
    \/ NovaSleep
    \/ Analyzed
    \/ \E ok \in BOOLEAN : Compile(ok)
    \/ \E d \in {1, CACHE_EXPIRATION} : Later(d)

SpecApp == Init /\ [][NextApp]_vars

NextCache ==
    \/ \E d \in {1, CACHE_EXPIRATION} : Advance(d)
    \/ \E topic \in Topics : Get(topic)
    \/ \E topic \in Topics, results \in Results : Set(topic, results)
    \/ ClearExpired
    \/ ClearAll
    \/ Size

SpecCache == Init /\ [][NextCache]_vars

NextCacheConc ==
    \/ \E d \in {1, CACHE_EXPIRATION} : Advance(d)
    \/ \E t \in Handlers, topic \in Topics : CGetBegin(t, topic)
    \/ \E t \in Handlers : CGetRead(t)
    \/ \E t \in Handlers : CGetCheck(t)
    \/ \E t \in Handlers : CGetDelete(t)
    \/ \E t \in Handlers, topic \in Topics, results \in Results :
          CSet(t, topic, results)
    \/ \E t \in Handlers : CSweepBegin(t)
    \/ \E t \in Handlers : CSweepNext(t)
    \/ \E t \in Handlers : CSweepDelete(t)
    \/ \E t \in Handlers : CClearAll(t)

SpecCacheConc == Init /\ [][NextCacheConc]_vars

(***************************************************************************)
(* Claims                                                                  *)
(***************************************************************************)

\* No two consecutive returns of wait() are closer than min_interval.
Spaced ==
    \A i \in 1..(Len(returns) - 1) : returns[i + 1] - returns[i] >= MinInterval

\* C1: for concurrent callers of one RateLimiter, no two consecutive
\* returns of wait() are closer than min_interval apart.
C1_ConcurrentSpaced == Spaced

\* C2: for non-overlapping wait() calls under a non-decreasing clock, each
\* return is at least min_interval after the previous return, and on return
\* last_call_time is the instant of that return.
C2_SequentialSpaced ==
    /\ Spaced
    /\ (returns # <<>> /\ \A t \in Callers : pc[t] = "idle")
          => last_call_time = returns[Len(returns)]

\* A second call slept and returned exactly min_interval after the first.
C2_Witness ==
    /\ Len(returns) >= 2
    /\ returns[2] - returns[1] = MinInterval
    /\ \E t \in Callers : wake_at[t] = returns[2]
    /\ \A t \in Callers : pc[t] = "idle"

\* A caller inside time.sleep() leaves it only to line 47, and from line 47
\* only out of wait(): one wait() sleeps at most once.
SleepsAtMostOnce ==
    \A t \in Callers :
        /\ pc[t] = "sleeping" => pc'[t] \in {"sleeping", "record"}
        /\ pc[t] = "record" => pc'[t] \in {"record", "idle"}
        /\ pc'[t] = "sleeping" => pc[t] \in {"check", "sleeping"}

\* C22: wait() never raises, sleeps at most once, and every call of wait()
\* returns.
C22_WaitTerminates ==
    /\ [](\A t \in Callers : pc[t] # "raised")
    /\ [][SleepsAtMostOnce]_vars
    /\ \A t \in Callers : (pc[t] # "idle") ~> (pc[t] = "idle")

\* a wait() that had to sleep has returned, after an earlier one
C22_Witness ==
    /\ Len(returns) >= 2
    /\ returns[2] > returns[1]
    /\ \A t \in Callers : pc[t] = "idle"
    /\ \E t \in Callers : wake_at[t] > 0

(***************************************************************************)
(* Claims about retry_with_backoff (checked under SpecRetry)               *)
(***************************************************************************)

RECURSIVE Pow(_, _)
Pow(b, n) == IF n = 0 THEN 1 ELSE b * Pow(b, n - 1)

\* Every call of func so far raised a failure of the retryable set.
AllRetryable ==
    \A i \in CallsAt : events[i].ev = "failed" /\ events[i].val \in Exceptions
\* Calls and sleeps alternate, starting with a call.
Alternates == \A i \in 1..Len(events) : IsCall(events[i]) <=> i % 2 = 1
\* The sleeps of the invocation, in order.
SleepLens == SelectSeq(events, LAMBDA x : x.ev = "sleep")
\* The last call of func in this invocation.
LastCall == events[CHOOSE i \in CallsAt : \A j \in CallsAt : j <= i]

\* C3: with max_retries >= 0 the operation is invoked at least once and at
\* most max_retries + 1 times, whatever its outcomes.
C3_AttemptsBounded ==
    rpc # "undecorated" =>
        /\ Calls <= max_retries + 1
        /\ Finished => Calls >= 1

\* An invocation with the largest max_retries used every attempt.
C3_Witness ==
    /\ rpc = "raised"
    /\ max_retries = MaxRetriesArg
    /\ Calls = max_retries + 1

\* C4: when every attempt raises a retryable failure, there are exactly
\* max_retries + 1 attempts, a sleep between consecutive attempts only, and
\* the invocation ends by raising, not by returning.
C4_AlwaysFailing ==
    (rpc # "undecorated" /\ AllRetryable) =>
        /\ Alternates
        /\ rpc # "returned"
        /\ Finished =>
              /\ Calls = max_retries + 1
              /\ Sleeps = max_retries
              /\ IsCall(events[Len(events)])
              /\ outcome.kind = "raised"
              /\ outcome.val \in Exceptions

\* max_retries = 3: four failed attempts, then the failure is raised.
C4_Witness ==
    /\ rpc = "raised"
    /\ max_retries = 3
    /\ AllRetryable
    /\ Calls = 4
    /\ Sleeps = 3

\* C5: the sleep after the k-th failed attempt lasts
\* base_delay * backoff_factor^(k-1).
C5_BackoffDelays ==
    /\ \A k \in 1..Len(SleepLens) :
          SleepLens[k].val = base_delay * Pow(backoff_factor, k - 1)
    /\ \A i \in SleepsAt :
          /\ i = 2 * Cardinality({j \in SleepsAt : j <= i})
          /\ events[i - 1].ev = "failed"

\* base_delay = 2, backoff_factor = 2: the sleeps are 2, 4, 8.
C5_Witness ==
    /\ base_delay = 2
    /\ backoff_factor = 2
    /\ Len(SleepLens) = 3
    /\ SleepLens[1].val = 2
    /\ SleepLens[2].val = 4
    /\ SleepLens[3].val = 8

\* The first attempt raised a failure outside the retryable set.
FirstNotRetryable ==
    /\ events # <<>>
    /\ events[1].ev = "failed"
    /\ events[1].val \notin Exceptions

\* C6: a non-retryable failure on the first attempt ends the invocation
\* after that one attempt, without a sleep, by raising that failure.
C6_FailFast ==
    FirstNotRetryable =>
        /\ Len(events) = 1
        /\ rpc = "raised"
        /\ outcome = [kind |-> "raised", val |-> events[1].val]

\* A wrapper that allows retries met a non-retryable failure at once.
C6_Witness ==
    /\ FirstNotRetryable
    /\ max_retries > 0
    /\ rpc = "raised"

\* The invocation used max_retries + 1 attempts and every one failed.
Exhausted ==
    /\ rpc = "raised"
    /\ Calls = max_retries + 1
    /\ AllRetryable

\* C7: after the retries are exhausted the failure raised to the caller is
\* the one of the last attempt.
C7_LastFailurePropagated ==
    Exhausted => outcome = [kind |-> "raised", val |-> LastCall.val]

\* The attempts failed with different failures; the last one was raised.
C7_Witness ==
    /\ Exhausted
    /\ max_retries > 0
    /\ events[1].val # LastCall.val

\* C8: the wrapper returns the operation's result as soon as an attempt
\* succeeds: a successful call is the last event of the invocation, which
\* has then returned that call's value.
C8_ReturnsOnSuccess ==
    /\ \A i \in 1..Len(events) :
          events[i].ev = "ok" =>
              /\ i = Len(events)
              /\ rpc = "returned"
              /\ outcome = [kind |-> "returned", val |-> events[i].val]
    /\ rpc = "returned" => (events # <<>> /\ events[Len(events)].ev = "ok")

\* A success on the third attempt, after two retryable failures.
C8_Witness ==
    /\ rpc = "returned"
    /\ Calls = 3
    /\ Sleeps = 2

\* C9: with max_retries = 0 the operation is invoked exactly once and the
\* wrapper never sleeps; a success is returned, a failure is raised.
C9_NoRetries ==
    (rpc # "undecorated" /\ max_retries = 0) =>
        /\ rpc # "sleep"
        /\ Sleeps = 0
        /\ Finished =>
              /\ Calls = 1
              /\ events[1].ev = "ok" =>
                    outcome = [kind |-> "returned", val |-> events[1].val]
              /\ events[1].ev = "failed" =>
                    outcome = [kind |-> "raised", val |-> events[1].val]

\* max_retries = 0 and the single attempt raised a retryable failure.
C9_Witness ==
    /\ rpc = "raised"
    /\ max_retries = 0
    /\ events # <<>>
    /\ events[1].val \in Exceptions

(***************************************************************************)
(* Claims about SimpleCache (checked under SpecCache)                      *)
(***************************************************************************)

\* The entry of the topic exists and its age is at most the TTL.
Visible(c, topic, now) ==
    /\ GenerateKey(topic) \in DOMAIN c
    /\ now - c[GenerateKey(topic)].timestamp <= 86400

\* C10: get(topic) returns the stored value iff an entry for the normalized
\* topic exists and now - created_at <= TTL (86400 s); otherwise absent.
C10_GetVisibleIffWithinTTL ==
    [][ret'.op = "get" =>
          IF Visible(cache, ret'.topic, ctime)
            THEN ret'.val = cache[GenerateKey(ret'.topic)].results
            ELSE ret'.val = None]_vars

\* A get returned an entry whose age is exactly the TTL.
C10_Witness ==
    /\ ret.op = "get"
    /\ ret.val # None
    /\ GenerateKey(ret.topic) \in DOMAIN cache
    /\ ctime - cache[GenerateKey(ret.topic)].timestamp = 86400

\* The entry under key k of store c is older than the TTL at time now.
Stale(c, k, now) == now - c[k].timestamp > 86400
StaleKeys(c, now) == {k \in DOMAIN c : Stale(c, k, now)}
\* Every entry of store c that is in store d is the same in both.
SameEntries(c, d) == \A k \in DOMAIN c \cap DOMAIN d : c[k] = d[k]

\* The last operation was a get on a key whose entry was older than TTL.
GetOnStale ==
    /\ ret.op = "get"
    /\ GenerateKey(ret.topic) \in DOMAIN before
    /\ Stale(before, GenerateKey(ret.topic), ctime)

C11_State ==
    GetOnStale =>
        /\ ret.val = None
        /\ DOMAIN cache = DOMAIN before \ {GenerateKey(ret.topic)}
        /\ SameEntries(cache, before)
        /\ Cardinality(DOMAIN cache) = Cardinality(DOMAIN before) - 1

\* C11: get(k) on an entry older than TTL returns absent and removes that
\* entry and no other; size() right after it is one less than before.
C11_GetPurgesStale ==
    [][/\ C11_State'
       /\ (GetOnStale /\ ret'.op = "size") =>
              ret'.count = Cardinality(DOMAIN before) - 1]_vars

\* A get purged a stale entry while another entry stayed.
C11_Witness ==
    /\ GetOnStale
    /\ cache # <<>>

\* C12: clear_expired removes exactly the entries older than TTL, returns
\* how many it removed, and leaves every other entry as it was.
C12_SweepExact ==
    ret.op = "clear_expired" =>
        /\ DOMAIN cache = DOMAIN before \ StaleKeys(before, ctime)
        /\ ret.count = Cardinality(StaleKeys(before, ctime))
        /\ ret.count = Cardinality(DOMAIN before) - Cardinality(DOMAIN cache)
        /\ SameEntries(cache, before)

\* A sweep removed one entry and kept one whose age is exactly the TTL.
C12_Witness ==
    /\ ret.op = "clear_expired"
    /\ ret.count = 1
    /\ \E k \in DOMAIN cache : ctime - cache[k].timestamp = 86400

\* Lowercased and trimmed, stated on positions: the lowercased characters
\* from the first to the last one that is not a blank.
Normalized(topic) ==
    LET solid == {i \in 1..Len(topic) : topic[i] # " "} IN
      IF solid = {} THEN <<>>
      ELSE LET first == CHOOSE i \in solid : \A j \in solid : i <= j
               last == CHOOSE i \in solid : \A j \in solid : j <= i
           IN [i \in 1..(last - first + 1) |-> LowerChar(topic[first + i - 1])]

C15_State ==
    /\ \A t1, t2 \in Topics :
          Normalized(t1) = Normalized(t2) => GenerateKey(t1) = GenerateKey(t2)
    /\ Cardinality(DOMAIN cache) <= Cardinality({Normalized(t) : t \in Topics})
    /\ ret.op = "set" =>
          \A t \in Topics :
              Normalized(t) = Normalized(ret.topic) =>
                  /\ GenerateKey(t) \in DOMAIN cache
                  /\ cache[GenerateKey(t)].results = last_set.results

\* C15: topics equal after lowercasing and trimming address one entry: a
\* get(t2) within TTL of set(t1, v) returns v when normalize(t1) =
\* normalize(t2), and the cache holds a single entry for both.
C15_NormalizedTopicsShareEntry ==
    [][/\ C15_State'
       /\ ret'.op = "get" =>
             \A t1 \in Topics :
                 (/\ Normalized(t1) = Normalized(ret'.topic)
                  /\ GenerateKey(t1) \in DOMAIN cache
                  /\ ~Stale(cache, GenerateKey(t1), ctime))
                     => ret'.val = cache[GenerateKey(t1)].results]_vars

\* set("DL", v) was the last set and get(" dl ") returned v from one entry.
C15_Witness ==
    /\ ret.op = "get"
    /\ ret.topic = <<" ", "d", "l", " ">>
    /\ last_set.topic = <<"D", "L">>
    /\ ret.val = last_set.results
    /\ Cardinality(DOMAIN cache) = 1

C16_State ==
    ret.op = "set" =>
        /\ last_set.topic = ret.topic
        /\ GenerateKey(ret.topic) \in DOMAIN cache
        /\ cache[GenerateKey(ret.topic)] =
              [results |-> last_set.results, timestamp |-> ctime]
        /\ DOMAIN cache = DOMAIN before \cup {GenerateKey(ret.topic)}
        /\ \A k \in DOMAIN before \ {GenerateKey(ret.topic)} : cache[k] = before[k]

\* C16: set on a key that has an entry replaces its value and sets its
\* timestamp to now: the count does not grow and a following get returns
\* the new value, also when the replaced entry was stale.
C16_SetOverwrites ==
    [][/\ C16_State'
       /\ (/\ ret.op = "set"
           /\ ret'.op = "get"
           /\ GenerateKey(ret'.topic) = GenerateKey(ret.topic))
             => ret'.val = last_set.results]_vars

\* A set replaced a stale entry by one with another value.
C16_Witness ==
    /\ ret.op = "set"
    /\ GenerateKey(ret.topic) \in DOMAIN before
    /\ Stale(before, GenerateKey(ret.topic), ctime)
    /\ before[GenerateKey(ret.topic)].results # last_set.results
    /\ Cardinality(DOMAIN cache) = Cardinality(DOMAIN before)

\* C17: two gets in a row on a non-expired key return the same value and
\* leave the entry set, the values and the timestamps as they were.
C17_GetIdempotent ==
    [][/\ (ret'.op = "get" /\ ret'.val # None) => cache' = cache
       /\ (/\ ret.op = "get"
           /\ ret.val # None
           /\ ret'.op = "get"
           /\ GenerateKey(ret'.topic) = GenerateKey(ret.topic))
             => (ret'.val = ret.val /\ cache' = cache)]_vars

\* The second of two gets in a row returned the value.
C17_Witness ==
    /\ repeat
    /\ ret.op = "get"
    /\ ret.val # None
    /\ cache = before

\* C18: clear_all removes every entry whatever its age: size() right after
\* it is 0 and every get returns absent until a later set.
C18_ClearAllEmpties ==
    [][/\ ret'.op = "clear_all" => cache' = <<>>
       /\ (ret.op = "clear_all" /\ ret'.op = "size") => ret'.count = 0
       /\ (cache = <<>> /\ ret'.op = "get") => ret'.val = None
       /\ (cache = <<>> /\ ret'.op # "set") => cache' = <<>>]_vars

\* clear_all removed a stale entry and one within TTL.
C18_Witness ==
    /\ ret.op = "clear_all"
    /\ cache = <<>>
    /\ \E k \in DOMAIN before : Stale(before, k, ctime)
    /\ \E k \in DOMAIN before : ~Stale(before, k, ctime)

\* C19: size() returns the number of stored entries, stale ones included,
\* and the passage of time alone never changes it.
C19_SizeCountsAll ==
    [][/\ ret'.op = "size" =>
             ret'.count = Cardinality(StaleKeys(cache', ctime'))
                        + Cardinality(DOMAIN cache' \ StaleKeys(cache', ctime'))
       /\ ctime' # ctime => DOMAIN cache' = DOMAIN cache]_vars

\* size() counted two entries, one of them stale.
C19_Witness ==
    /\ ret.op = "size"
    /\ ret.count = 2
    /\ Cardinality(StaleKeys(cache, ctime)) = 1

(***************************************************************************)
(* Claims about SimpleCache under concurrent handlers (SpecCacheConc)      *)
(***************************************************************************)

\* C13: with concurrent handlers, get and clear_expired never delete an
\* entry that is within TTL (one a concurrent set has just written).
C13_NoFreshEntryDeleted == ~fresh_deleted

\* C14: with concurrent handlers no cache operation ends in an error
\* (KeyError from a removed key, RuntimeError from a resized dict).
C14_NoCacheError == cerror = None

(***************************************************************************)
(* Claims about search_papers under its retry wrapper (SpecSearch)         *)
(***************************************************************************)

\* The first request of the invocation was answered with HTTP 400.
FirstBadRequest ==
    /\ events # <<>>
    /\ events[1] = CallEvent("failed", SearchError("400"))

\* C20: an HTTP 400 answer to the paper search is not retried: one request,
\* no backoff sleep, the failure raised to the caller at once.
C20_BadRequestNotRetried ==
    FirstBadRequest =>
        /\ Len(events) = 1
        /\ rpc = "raised"
        /\ outcome = [kind |-> "raised", val |-> SearchError("400")]

(***************************************************************************)
(* Claims about analyze_papers and generate_proposal under their retry     *)
(* wrapper (SpecNova)                                                      *)
(***************************************************************************)

\* The failures of malformed input: no papers, no analysis, a request the
\* API rejects as invalid.
MalformedInput ==
    {NovaFailure(f, a, "ValidationException") : f \in NovaFuncs, a \in Arguments}

\* C21: a malformed-input failure of analyze_papers or generate_proposal
\* fails fast: the body runs once, no backoff sleep, the failure is raised.
C21_MalformedInputFailsFast ==
    (events # <<>> /\ events[1].ev = "failed" /\ events[1].val \in MalformedInput)
        => /\ Len(events) = 1
           /\ rpc = "raised"
           /\ outcome = [kind |-> "raised", val |-> events[1].val]

(***************************************************************************)
(* Further claims about retry_with_backoff (checked under SpecRetry)       *)
(***************************************************************************)

\* The time the invocation has spent in time.sleep() so far.
RECURSIVE SumVals(_)
SumVals(sq) == IF sq = <<>> THEN 0 ELSE Head(sq).val + SumVals(Tail(sq))
TotalSleep == SumVals(SleepLens)

\* d + d*f + ... + d*f^(n-1)
RECURSIVE GeomSum(_, _, _)
GeomSum(d, f, n) == IF n = 0 THEN 0 ELSE d * Pow(f, n - 1) + GeomSum(d, f, n - 1)

\* d*(f^n - 1)/(f - 1), the closed form of the sum where it is defined
ClosedForm(d, f, n) ==
    IF f = 1 THEN d * n ELSE (d * (Pow(f, n) - 1)) \div (f - 1)

\* Every attempt of the invocation failed with a retryable failure.
EveryAttemptFailed == Finished /\ AllRetryable

\* C23 as stated: the total sleep of an invocation is at most the geometric
\* sum, and a finished invocation has slept the whole sum exactly when every
\* one of its attempts failed with a retryable failure.
C23_SleepIsSumIffAllFailed ==
    rpc # "undecorated" =>
        /\ TotalSleep <= ClosedForm(base_delay, backoff_factor, max_retries)
        /\ Finished =>
              (TotalSleep = ClosedForm(base_delay, backoff_factor, max_retries)
                  <=> EveryAttemptFailed)

\* C23 amended: the total sleep is at most the geometric sum; it equals the
\* sum exactly when the invocation has slept max_retries times, which is the
\* case when every attempt failed with a retryable failure and also when only
\* the last of the max_retries + 1 attempts did not.
C23_SleepIsSumIffAllRetriesUsed ==
    rpc # "undecorated" =>
        /\ GeomSum(base_delay, backoff_factor, max_retries)
              = ClosedForm(base_delay, backoff_factor, max_retries)
        /\ TotalSleep <= GeomSum(base_delay, backoff_factor, max_retries)
        /\ TotalSleep = GeomSum(base_delay, backoff_factor, max_retries)
              <=> Sleeps = max_retries
        /\ EveryAttemptFailed => Sleeps = max_retries

\* max_retries = 3, base_delay = 2, backoff_factor = 2: three attempts fail,
\* the fourth returns, after 2 + 4 + 8 = 14 s of sleep.
C23_Witness ==
    /\ max_retries = 3 /\ base_delay = 2 /\ backoff_factor = 2
    /\ rpc = "returned"
    /\ Calls = 4
    /\ TotalSleep = 14

NotRetryableAt ==
    {i \in CallsAt : events[i].ev = "failed" /\ events[i].val \notin Exceptions}

\* C28: a failure that is not retryable ends the invocation at the attempt
\* where it occurs: no further attempt, no further sleep, and it is this
\* failure that is raised, not an earlier retryable one.
C28_NotRetryablePropagatesAtOnce ==
    \A i \in NotRetryableAt :
        /\ i = Len(events)
        /\ rpc = "raised"
        /\ outcome = [kind |-> "raised", val |-> events[i].val]

\* two attempts failed with retryable failures, the third with another one
C28_Witness ==
    /\ Calls = 3
    /\ Sleeps = 2
    /\ NotRetryableAt = {Len(events)}
    /\ events[1].val \in Exceptions
    /\ rpc = "raised"

\* C29: the wrapper sleeps only between two attempts: every sleep follows a
\* failed attempt and is followed by the next attempt, a finished invocation
\* has slept attempts - 1 times, and an exhausted one raises right after its
\* attempt max_retries + 1.
C29_NoSleepAfterLastAttempt ==
    rpc # "undecorated" =>
        /\ rpc = "sleep" => Calls <= max_retries
        /\ Finished =>
              /\ Sleeps = Calls - 1
              /\ IsCall(events[Len(events)])
              /\ \A i \in SleepsAt : IsCall(events[i - 1]) /\ IsCall(events[i + 1])

\* max_retries = 2: the third attempt fails and the failure is raised after
\* two sleeps
C29_Witness ==
    /\ max_retries = 2
    /\ rpc = "raised"
    /\ AllRetryable
    /\ Calls = 3
    /\ Sleeps = 2

(***************************************************************************)
(* Further claims about search_papers (checked under SpecSearch)           *)
(***************************************************************************)

\* This step is a return of semantic_scholar_limiter.wait(), at least
\* min_interval after the previous one.
WaitReturns ==
    /\ returns' = Append(returns, clock')
    /\ returns # <<>> => clock' - returns[Len(returns)] >= MinInterval

\* This step is the answer to a request (or its failure).
RequestAnswered ==
    /\ Len(events') = Len(events) + 1
    /\ IsCall(events'[Len(events')])

\* C24: every request of search_papers, the retried ones included, is
\* preceded by a wait() of the limiter of its own: the wrapper reaches a
\* request only through a wait() that returns at least min_interval after the
\* previous one, and n attempts make n waits.
C24_WaitBeforeEveryRequest ==
    /\ [][/\ (rpc' = "request" /\ rpc # "request") => (rpc = "call" /\ WaitReturns)
          /\ RequestAnswered => (rpc = "request" /\ rpc' # "request")
          /\ (rpc = "request" /\ rpc' # "request") => RequestAnswered]_vars
    /\ [](invocations = 1 =>
            Len(returns) = Calls + (IF rpc = "request" THEN 1 ELSE 0))

\* a retried invocation: two requests sent, two waits returned
C24_Witness ==
    /\ invocations = 1
    /\ Calls = 2
    /\ Len(returns) = 2
    /\ returns[2] - returns[1] >= MinInterval

(***************************************************************************)
(* Claims about analyze_topic (checked under SpecApp)                      *)
(***************************************************************************)

\* The handler is past the cache lookup and at the external work.
AtWork == hpc \in {"fetch", "searching", "analyze", "analyzing", "compile"}

\* Since the request arrived no wait() returned, no decorated function
\* (search_papers, analyze_papers) was invoked, cache.set was not called.
NoWorkDone ==
    /\ Len(returns) = snap.waits
    /\ invocations = snap.invocations
    /\ sets = snap.sets

\* C25: a request whose topic has a non-expired entry is answered from the
\* cache: it never reaches the external work, and until its response no
\* wait(), no paper search, no LLM analysis and no cache.set was performed.
C25_CacheHitSkipsWork ==
    /\ AtWork => ~Visible(snap.cache, htopic, ctime)
    /\ response.from_cache =>
          /\ response.status = 200
          /\ hpc = "idle"
          /\ NoWorkDone
          /\ cache = snap.cache
          /\ response.obj = snap.cache[GenerateKey(htopic)].results

\* the second request for a topic is answered from the cache
C25_Witness ==
    /\ requests = 2
    /\ response.from_cache
    /\ sets = 1
    /\ invocations = 2

\* The request has been answered with an error of the paper search (503),
\* of no papers (404) or an unexpected one (500).
ErrorResponse == hpc = "idle" /\ response.status \in {503, 404, 500}

\* C30 as stated: an analysis request that ends in an error response has not
\* called cache.set, and the cache content is what it was before the request.
C30_ErrorLeavesCacheAsBefore ==
    ErrorResponse => (sets = snap.sets /\ cache = snap.cache)

\* C30 amended: an analysis request that ends in an error response has not
\* called cache.set; the cache is what it was before the request except for
\* the topic's own entry, which the request's get has purged if there was
\* one (a stale one), so the topic has no entry and a later request for it
\* does the external work again.
C30_ErrorWritesNothing ==
    ErrorResponse =>
        /\ sets = snap.sets
        /\ cache = Without(snap.cache, {GenerateKey(htopic)})
        /\ ret.op = "get" =>
              \A k \in DOMAIN snap.cache \ DOMAIN cache : Stale(snap.cache, k, ctime)

\* the paper search failed for a topic whose stale entry the get had purged
C30_Witness ==
    /\ ErrorResponse
    /\ response.status = 503
    /\ ret.op = "get"
    /\ snap.sets = 1
    /\ cache # snap.cache

\* This step is a return of the limiter's wait() inside search_papers.
WaitStep ==
    /\ func = "search_papers"
    /\ rpc = "call"
    /\ rpc' = "request"
    /\ last_call_time' = clock'

Degraded(id) == id \in DOMAIN objs /\ objs[id].analysis = "default analysis"

\* analyze_papers has given up: its wrapper re-raised a NovaError.
AnalysisGaveUp ==
    /\ hpc = "analyzing"
    /\ rpc = "raised"
    /\ NovaCaught(outcome.val)

OtherKeys(c, d, topic) == (DOMAIN c \cup DOMAIN d) \ {GenerateKey(topic)}

\* C32: a get(t) or a set(t, v), a get that deletes the stale entry of t
\* included, leaves every entry under a key other than that of t present
\* or absent as it was, with the same results and the same timestamp.
C32_OtherKeysUntouched ==
    [][ret'.op \in {"get", "set"} =>
         \A k \in OtherKeys(cache, cache', ret'.topic) :
            /\ k \in DOMAIN cache
            /\ k \in DOMAIN cache'
            /\ cache'[k] = cache[k]]_vars

\* a get has just deleted the stale entry of its topic while the entry of
\* another key, stale as well, stayed as it was
C32_Witness ==
    /\ ret.op = "get"
    /\ GenerateKey(ret.topic) \in DOMAIN before
    /\ GenerateKey(ret.topic) \notin DOMAIN cache
    /\ \E k \in DOMAIN cache :
          /\ k \in DOMAIN before
          /\ cache[k] = before[k]
          /\ Stale(cache, k, ctime)

====
